---- MODULE Spec2Model ----
(***************************************************************************)
(* pngchunk: the PNG chunk type (chunk_type.rs), the chunk framing         *)
(* (chunk.rs) and the chunk container used by the commands (commands.rs).  *)
(*                                                                         *)
(* Bytes are naturals in 0..255 and byte strings are sequences of bytes.   *)
(* A Rust String / &str is its UTF-8 byte sequence.  A u32 is the record   *)
(* [hi, lo] of its two 16-bit halves, so that all 2^32 values exist.       *)
(***************************************************************************)
EXTENDS Integers, Sequences, FiniteSets, TLC

VARIABLES ctype, chunk, png, op

vars == <<ctype, chunk, png, op>>

----------------------------------------------------------------------------
(* Bounds of the model *)

MaxStrLen == 5

MaxData == 1

MaxChunks == 2

----------------------------------------------------------------------------
(* u32 and byte helpers *)

None == [none |-> TRUE]

U32(hi, lo) == [hi |-> hi, lo |-> lo]

\* `data.len() as u32`: keeps the low 32 bits of the count
usize_as_u32(n) == U32((n \div 65536) % 65536, n % 65536)

to_be_bytes(x) == <<x.hi \div 256, x.hi % 256, x.lo \div 256, x.lo % 256>>

from_be_bytes(b) == U32(b[1] * 256 + b[2], b[3] * 256 + b[4])

RECURSIVE XorBits(_, _, _)
XorBits(a, b, n) ==
    IF n = 0 THEN 0
    ELSE ((a + b) % 2) + 2 * XorBits(a \div 2, b \div 2, n - 1)

\* a ^ b on bytes, tabulated
Xor8 == [a \in 0..255 |-> [b \in 0..255 |-> XorBits(a, b, 8)]]

Xor16(a, b) ==
    Xor8[a \div 256][b \div 256] * 256 + Xor8[a % 256][b % 256]

Xor32(x, y) == U32(Xor16(x.hi, y.hi), Xor16(x.lo, y.lo))

Shr1(x) == U32(x.hi \div 2, (x.lo \div 2) + (x.hi % 2) * 32768)

Shr8(x) == U32(x.hi \div 256, (x.lo \div 256) + (x.hi % 256) * 256)

\* one bit of the reflected CRC-32 register, polynomial 0xEDB88320
CrcBit(c) ==
    IF c.lo % 2 = 1 THEN Xor32(Shr1(c), U32(60856, 33568)) ELSE Shr1(c)

\* the 256-entry table of the crc crate for CRC_32_ISO_HDLC
CrcTable ==
    [b \in 0..255 |->
        CrcBit(CrcBit(CrcBit(CrcBit(CrcBit(CrcBit(CrcBit(CrcBit(U32(0, b)))))))))]

CrcByte(c, byte) == Xor32(Shr8(c), CrcTable[Xor8[c.lo % 256][byte]])

\* digest.update: the register is folded over the bytes from first to last
RECURSIVE CrcUpdate(_, _)
CrcUpdate(c, bytes) ==
    IF bytes = <<>> THEN c
    ELSE LET c1 == CrcByte(c, Head(bytes))
         \* the test makes c1 a value before the next byte is folded in
         IN  IF c1.hi \in 0..65535 THEN CrcUpdate(c1, Tail(bytes)) ELSE c1

\* Chunk::calculate_crc: CRC_32_ISO_HDLC, init 0xFFFFFFFF, xorout 0xFFFFFFFF
calculate_crc(bytes) ==
    LET c == CrcUpdate(U32(65535, 65535), bytes)
    IN  U32(65535 - c.hi, 65535 - c.lo)

----------------------------------------------------------------------------
(* Results.  The source returns Box<dyn Error> built from a message; the   *)
(* error kinds below name those messages:                                  *)
(*   InvalidFormat     "String must be 4 bytes long." /                    *)
(*                     "Chunk type can only contain alphabetic ascii"      *)
(*   Truncated         "Chunk must contain atleast 12 bytes."              *)
(*   ChecksumMismatch  "CRC invalid: Got .., should be .."                 *)
(*   Panic             panic!("Incorrect number of bytes left in value")   *)
(*                     or a failed unwrap()                                *)

Ok(v) == [ok |-> TRUE, val |-> v]

Err(kind) == [ok |-> FALSE, err |-> kind]

----------------------------------------------------------------------------
(* chunk_type.rs *)

\* u8::is_ascii_alphabetic
is_ascii_alphabetic(b) == (b >= 65 /\ b <= 90) \/ (b >= 97 /\ b <= 122)

ChunkType_new(data) == [data |-> data]

bytes(t) == t.data

\* variant: the mask is n itself instead of 1 << n
get_bit_at_NoShift(byte, n) ==
    IF n < 8 THEN Ok(\E i \in 0..7 : (byte \div (2 ^ i)) % 2 = 1
                                      /\ (n \div (2 ^ i)) % 2 = 1)
    ELSE Err("InvalidArgument")

\* ChunkType::get_bit_at: byte & (1 << n) != 0, an error for n > 7
get_bit_at(byte, n) ==
    IF n < 8 THEN Ok(((byte \div (2 ^ n)) % 2) # 0)
    ELSE Err("InvalidArgument")

\* Result::unwrap
unwrap(r) == IF r.ok THEN r.val ELSE "Panic"

is_critical(t) == unwrap(get_bit_at(t.data[1], 5)) = FALSE

is_public(t) == unwrap(get_bit_at(t.data[2], 5)) = FALSE

is_reserved_bit_valid(t) == unwrap(get_bit_at(t.data[3], 5)) = FALSE

is_safe_to_copy(t) == unwrap(get_bit_at(t.data[4], 5)) = TRUE

is_valid(t) ==
    (\A i \in 1..4 : is_ascii_alphabetic(t.data[i])) /\ is_reserved_bit_valid(t)

\* whether one of the five queries hits a failed unwrap
QueryPanics(t) == \E i \in 1..4 : ~ get_bit_at(t.data[i], 5).ok

\* impl TryFrom<[u8; 4]> for ChunkType
ChunkType_try_from(value) == Ok(ChunkType_new(value))

\* variant: longer strings pass the length test
from_str_AtLeast4(s) ==
    IF Len(s) < 4 THEN Err("InvalidFormat")
    ELSE LET t == ChunkType_new(<<s[1], s[2], s[3], s[4]>>)
         IN  IF \A i \in 1..4 : (t.data[i] >= 65 /\ t.data[i] <= 90)
                                  \/ (t.data[i] >= 97 /\ t.data[i] <= 122)
             THEN Ok(t)
             ELSE Err("InvalidFormat")

\* impl FromStr for ChunkType
from_str(s) ==
    IF Len(s) # 4 THEN Err("InvalidFormat")
    ELSE LET t == ChunkType_new(<<s[1], s[2], s[3], s[4]>>)
         IN  IF \A i \in 1..4 : is_ascii_alphabetic(t.data[i])
             THEN Ok(t)
             ELSE Err("InvalidFormat")

(* String::from_utf8_lossy.  Utf8Len(v) is the byte length of the well-   *)
(* formed UTF-8 sequence at the head of v, 0 when there is none;          *)
(* Utf8Bad(v) is then the length of the ill-formed part that one U+FFFD   *)
(* replaces (the longest prefix that could start a sequence, at least 1). *)
IsCont(v, i) == Len(v) >= i /\ v[i] >= 128 /\ v[i] <= 191

Second(v, lo, hi) == Len(v) >= 2 /\ v[2] >= lo /\ v[2] <= hi

SecondOk(v) ==
    LET b == v[1]
    IN  IF b = 224 THEN Second(v, 160, 191)
        ELSE IF b = 237 THEN Second(v, 128, 159)
        ELSE IF b = 240 THEN Second(v, 144, 191)
        ELSE IF b = 244 THEN Second(v, 128, 143)
        ELSE Second(v, 128, 191)

Utf8Width(b) ==
    IF b < 128 THEN 1
    ELSE IF b >= 194 /\ b <= 223 THEN 2
    ELSE IF b >= 224 /\ b <= 239 THEN 3
    ELSE IF b >= 240 /\ b <= 244 THEN 4
    ELSE 0

Utf8Len(v) ==
    LET w == Utf8Width(v[1])
    IN  IF w <= 1 THEN w
        ELSE IF ~ SecondOk(v) THEN 0
        ELSE IF \A i \in 3..w : IsCont(v, i) THEN w
        ELSE 0

Utf8Bad(v) ==
    LET w == Utf8Width(v[1])
    IN  IF w <= 1 \/ ~ SecondOk(v) THEN 1
        ELSE IF w = 2 \/ ~ IsCont(v, 3) THEN 2
        ELSE 3

RECURSIVE from_utf8_lossy(_)
from_utf8_lossy(v) ==
    IF v = <<>> THEN <<>>
    ELSE LET n == Utf8Len(v)
         IN  IF n > 0
             THEN SubSeq(v, 1, n) \o from_utf8_lossy(SubSeq(v, n + 1, Len(v)))
             ELSE <<239, 191, 189>>
                  \o from_utf8_lossy(SubSeq(v, Utf8Bad(v) + 1, Len(v)))

RECURSIVE IsUtf8(_)
IsUtf8(v) ==
    v = <<>> \/ (Utf8Len(v) > 0 /\ IsUtf8(SubSeq(v, Utf8Len(v) + 1, Len(v))))

\* impl fmt::Display for ChunkType (to_string)
to_string(t) == from_utf8_lossy(t.data)

----------------------------------------------------------------------------
(* chunk.rs *)

MIN_CHUNK_LENGTH == 12

\* variant: the CRC covers the data only, not the type bytes
Chunk_new_CrcOfData(chunk_type, data) ==
    [m_length     |-> usize_as_u32(Len(data)),
     m_type       |-> chunk_type,
     m_chunk_data |-> data,
     m_crc        |-> calculate_crc(data)]

Chunk_new(chunk_type, data) ==
    [m_length     |-> usize_as_u32(Len(data)),
     m_type       |-> chunk_type,
     m_chunk_data |-> data,
     m_crc        |-> calculate_crc(bytes(chunk_type) \o data)]

\* variant: the CRC is written least significant byte first
as_bytes_LittleEndianCrc(k) ==
    to_be_bytes(k.m_length) \o bytes(k.m_type) \o k.m_chunk_data
        \o <<k.m_crc.lo % 256, k.m_crc.lo \div 256,
             k.m_crc.hi % 256, k.m_crc.hi \div 256>>

as_bytes(k) ==
    to_be_bytes(k.m_length) \o bytes(k.m_type) \o k.m_chunk_data
        \o to_be_bytes(k.m_crc)

\* variant: the data slice ends one byte late
ParseData_OffByOne(value) ==
    IF Len(value) = 12 THEN <<>>
    ELSE SubSeq(value, 9, Len(value) - 3)

\* the data field that try_from copies out of value
ParseData(value) ==
    IF Len(value) = MIN_CHUNK_LENGTH THEN <<>>
    ELSE SubSeq(value, 9, Len(value) - 4)

\* &value[8 + m_chunk_data.len()..]
ParseCrcToTest(value) ==
    SubSeq(value, 8 + Len(ParseData(value)) + 1, Len(value))

\* variant: only the low 16 bits of the stored CRC are compared
Chunk_try_from_LowHalf(value) ==
    IF Len(value) < MIN_CHUNK_LENGTH THEN Err("Truncated")
    ELSE LET m_type       == ChunkType_new(SubSeq(value, 5, 8))
             m_chunk_data == ParseData(value)
             m_crc == calculate_crc(bytes(m_type) \o m_chunk_data)
             crc_to_test  == ParseCrcToTest(value)
         IN  IF Len(crc_to_test) # 4 THEN Err("Panic")
             ELSE IF from_be_bytes(crc_to_test).lo # m_crc.lo
                  THEN Err("ChecksumMismatch")
                  ELSE Ok([m_length     |-> from_be_bytes(SubSeq(value, 1, 4)),
                           m_type       |-> m_type,
                           m_chunk_data |-> m_chunk_data,
                           m_crc        |-> m_crc])

\* impl TryFrom<&[u8]> for Chunk
Chunk_try_from(value) ==
    IF Len(value) < MIN_CHUNK_LENGTH THEN Err("Truncated")
    ELSE LET m_length == from_be_bytes(SubSeq(value, 1, 4))
             tr       == ChunkType_try_from(SubSeq(value, 5, 8))
         IN  IF ~ tr.ok THEN tr
             ELSE LET m_type       == tr.val
                      m_chunk_data == ParseData(value)
                      m_crc == calculate_crc(bytes(m_type) \o m_chunk_data)
                      crc_to_test  == ParseCrcToTest(value)
                  IN  IF Len(crc_to_test) # 4 THEN Err("Panic")
                      ELSE IF from_be_bytes(crc_to_test) # m_crc
                           THEN Err("ChecksumMismatch")
                           ELSE Ok([m_length     |-> m_length,
                                    m_type       |-> m_type,
                                    m_chunk_data |-> m_chunk_data,
                                    m_crc        |-> m_crc])

----------------------------------------------------------------------------
(* The chunk container (mod png).  commands.rs calls Png::try_from,        *)
(* append_chunk, remove_chunk, chunk_by_type, chunks and as_bytes; the     *)
(* operations are modelled as the specification of the container           *)
(* describes them.  An Option<&Chunk> is None or the chunk.                *)

STANDARD_HEADER == <<137, 80, 78, 71, 13, 10, 26, 10>>

Png_from_chunks(chunks) == [header |-> STANDARD_HEADER, chunks |-> chunks]

append_chunk(p, k) == [p EXCEPT !.chunks = Append(@, k)]

\* index of the first chunk whose type renders as tag, 0 when there is none
RECURSIVE PositionFrom(_, _, _)
PositionFrom(chunks, tag, i) ==
    IF i > Len(chunks) THEN 0
    ELSE IF to_string(chunks[i].m_type) = tag THEN i
    ELSE PositionFrom(chunks, tag, i + 1)

\* variant: the chunk is returned but stays in the sequence
remove_chunk_Keeps(p, tag) ==
    LET i == PositionFrom(p.chunks, tag, 1)
    IN  IF i = 0 THEN [png |-> p, ret |-> Err("NotFound")]
        ELSE [png |-> p, ret |-> Ok(p.chunks[i])]

\* variant: the last chunk of the type is removed instead of the first
remove_chunk_Last(p, tag) ==
    LET m == {i \in 1..Len(p.chunks) : to_string(p.chunks[i].m_type) = tag}
        i == CHOOSE x \in m : \A y \in m : y <= x
    IN  IF m = {} THEN [png |-> p, ret |-> Err("NotFound")]
        ELSE [png |-> [p EXCEPT !.chunks = SubSeq(@, 1, i - 1)
                                            \o SubSeq(@, i + 1, Len(@))],
              ret |-> Ok(p.chunks[i])]

remove_chunk(p, tag) ==
    LET i == PositionFrom(p.chunks, tag, 1)
    IN  IF i = 0 THEN [png |-> p, ret |-> Err("NotFound")]
        ELSE [png |-> [p EXCEPT !.chunks = SubSeq(@, 1, i - 1)
                                            \o SubSeq(@, i + 1, Len(@))],
              ret |-> Ok(p.chunks[i])]

chunk_by_type(p, tag) ==
    LET i == PositionFrom(p.chunks, tag, 1)
    IN  IF i = 0 THEN None ELSE p.chunks[i]

RECURSIVE ConcatChunks(_)
ConcatChunks(chunks) ==
    IF chunks = <<>> THEN <<>>
    ELSE as_bytes(Head(chunks)) \o ConcatChunks(Tail(chunks))

Png_as_bytes(p) == p.header \o ConcatChunks(p.chunks)

\* the walk over the chunks after the signature: each chunk is the next
\* 12 + declared length bytes, handed to Chunk::try_from
RECURSIVE ParseChunks(_)
ParseChunks(rest) ==
    IF rest = <<>> THEN Ok(<<>>)
    ELSE IF Len(rest) < 4 THEN Err("Truncated")
    ELSE LET declared == from_be_bytes(SubSeq(rest, 1, 4))
         IN  IF declared.hi > 0 \/ Len(rest) < 12 + declared.lo
             THEN Err("Truncated")
             ELSE LET r == Chunk_try_from(SubSeq(rest, 1, 12 + declared.lo))
                  IN  IF ~ r.ok THEN r
                      ELSE LET more == ParseChunks(
                                  SubSeq(rest, 13 + declared.lo, Len(rest)))
                           IN  IF ~ more.ok THEN more
                               ELSE Ok(<<r.val>> \o more.val)

Png_try_from(value) ==
    IF Len(value) < 8 \/ SubSeq(value, 1, 8) # STANDARD_HEADER
    THEN Err("BadSignature")
    ELSE LET r == ParseChunks(SubSeq(value, 9, Len(value)))
         IN  IF r.ok THEN Ok(Png_from_chunks(r.val)) ELSE r

----------------------------------------------------------------------------
(* Inputs of the model *)

SeqsUpTo(S, n) == UNION {[1..m -> S] : m \in 0..n}

\* bytes an argument string is made of: A z 1 @ and the two bytes of U+00E9
StrBytes == {65, 122, 49, 64, 195, 169}

StrInputs == {s \in SeqsUpTo(StrBytes, MaxStrLen) : IsUtf8(s)}

\* bytes around the two letter ranges, for ChunkType::new
FlagBytes == {0, 64, 65, 90, 91, 96, 97, 122, 123, 255}

RuSt == <<82, 117, 83, 116>>

\* "This is where your secret message will be!" (chunk.rs tests)
TestMessage ==
    <<84, 104, 105, 115, 32, 105, 115, 32, 119, 104, 101, 114, 101, 32,
      121, 111, 117, 114, 32, 115, 101, 99, 114, 101, 116, 32, 109, 101,
      115, 115, 97, 103, 101, 32, 119, 105, 108, 108, 32, 98, 101, 33>>

ChunkTags == {RuSt, <<255, 117, 83, 116>>, <<0, 0, 0, 0>>}

DataBytes == {0, 255}

DataInputs == SeqsUpTo(DataBytes, MaxData) \cup {TestMessage}

\* length fields written over the first 4 bytes of a serialized chunk
LengthFields ==
    {to_be_bytes(usize_as_u32(n)) : n \in 0..(MaxData + 1)}
        \cup {<<255, 255, 255, 255>>}

Trailing(w) == SubSeq(w, Len(w) - 3, Len(w))

\* values written over the last 4 bytes of a serialized chunk
CrcFields(w) ==
    {<<0, 0, 0, 0>>}
        \cup {[Trailing(w) EXCEPT ![i] = (@ + 1) % 256] : i \in 1..4}
        \cup {[Trailing(w) EXCEPT ![4] = (@ + 255) % 256]}

\* the byte sequences handed to Chunk::try_from, made from a serialized chunk
Variants(w) ==
    {[kind |-> "same", bytes |-> w]}
        \cup {[kind |-> "length", bytes |-> f \o SubSeq(w, 5, Len(w))] :
                f \in LengthFields \ {SubSeq(w, 1, 4)}}
        \cup {[kind |-> "crc", bytes |-> SubSeq(w, 1, Len(w) - 4) \o c] :
                c \in CrcFields(w)}
        \cup {[kind |-> "prefix", bytes |-> SubSeq(w, 1, n)] :
                n \in 0..(Len(w) - 1)}
        \cup {[kind |-> "longer", bytes |-> w \o <<b>>] : b \in DataBytes}

\* type tags of the chunks put into a container; the last two are not
\* UTF-8 and render alike
PngTags == {RuSt, <<255, 117, 83, 116>>, <<128, 117, 83, 116>>}

PngData == {<<>>, <<0>>}

NewChunks == {Chunk_new(ChunkType_new(t), d) : t \in PngTags, d \in PngData}

\* chunks Chunk::try_from returns for a RuSt chunk whose length field was
\* overwritten with 0 or 1
ParsedChunks ==
    LET ws == {f \o SubSeq(as_bytes(Chunk_new(ChunkType_new(RuSt), d)), 5,
                           12 + Len(d)) :
                  f \in {<<0, 0, 0, 0>>, <<0, 0, 0, 1>>}, d \in PngData}
    IN  {Chunk_try_from(w).val : w \in {x \in ws : Chunk_try_from(x).ok}}

PngChunks == NewChunks \cup ParsedChunks

\* "IEND" is the tag of no chunk of the model
TagInputs == {to_string(ChunkType_new(t)) : t \in PngTags}
                 \cup {<<73, 69, 78, 68>>}

\* byte buffers read from a file that no as_bytes call wrote
ExternalFiles ==
    LET k == Chunk_new(ChunkType_new(RuSt), <<0>>)
        f == STANDARD_HEADER \o as_bytes(k)
    IN  {<<>>, STANDARD_HEADER, [STANDARD_HEADER EXCEPT ![1] = 0],
         SubSeq(STANDARD_HEADER, 1, 7), f, f \o as_bytes(k),
         SubSeq(f, 1, Len(f) - 1), f \o <<0, 0>>,
         [f EXCEPT ![Len(f)] = (@ + 1) % 256]}

----------------------------------------------------------------------------
(* State machine.  ctype, chunk and png hold the value the last            *)
(* constructor returned (None after an error); op records the last call,   *)
(* its arguments and what it returned.                                     *)

Start(name) == [name |-> name]

\* ChunkType::from_str(s)
TypeFromStr ==
    /\ op.name = "init"
    /\ \E s \in StrInputs :
        LET r == from_str(s)
        IN  /\ ctype' = IF r.ok THEN r.val ELSE None
            /\ op' = [name |-> "from_str", s |-> s, ret |-> r]
            /\ UNCHANGED <<chunk, png>>

\* ChunkType::new(data) followed by the five queries
TypeNew ==
    /\ op.name = "init"
    /\ \E data \in [1..4 -> FlagBytes] :
        LET t == ChunkType_new(data)
        IN  /\ ctype' = t
            /\ op' = [name     |-> "type_new",
                      data     |-> data,
                      panics   |-> QueryPanics(t),
                      critical |-> is_critical(t),
                      public   |-> is_public(t),
                      reserved |-> is_reserved_bit_valid(t),
                      safe     |-> is_safe_to_copy(t),
                      valid    |-> is_valid(t)]
            /\ UNCHANGED <<chunk, png>>

\* Chunk::new(chunk_type, data)
ChunkNew ==
    /\ op.name = "init"
    /\ \E tag \in ChunkTags, data \in DataInputs :
        /\ chunk' = Chunk_new(ChunkType_new(tag), data)
        /\ op' = [name |-> "chunk_new", tag |-> tag, data |-> data]
        /\ UNCHANGED <<ctype, png>>

\* chunk.as_bytes()
ChunkAsBytes ==
    /\ chunk # None
    /\ op.name # "as_bytes"
    /\ op' = [name |-> "as_bytes", k |-> chunk, ret |-> as_bytes(chunk)]
    /\ UNCHANGED <<ctype, chunk, png>>

\* Chunk::try_from(value), value made from the bytes as_bytes returned
ChunkParse ==
    /\ op.name = "as_bytes"
    /\ \E v \in Variants(op.ret) :
        LET r == Chunk_try_from(v.bytes)
        IN  /\ chunk' = IF r.ok THEN r.val ELSE None
            /\ op' = [name    |-> "parse",
                      input   |-> v.bytes,
                      kind    |-> v.kind,
                      base    |-> op.ret,
                      base_ok |-> Chunk_try_from(op.ret).ok,
                      k       |-> op.k,
                      trail   |-> IF Len(v.bytes) < MIN_CHUNK_LENGTH THEN -1
                                  ELSE Len(ParseCrcToTest(v.bytes)),
                      ret     |-> r]
    /\ UNCHANGED <<ctype, png>>

\* Png::from_chunks(chunks)
PngFromChunks ==
    /\ op.name = "init"
    /\ \E cs \in SeqsUpTo(PngChunks, MaxChunks) :
        /\ png' = Png_from_chunks(cs)
        /\ op' = [name |-> "from_chunks", chunks |-> cs]
    /\ UNCHANGED <<ctype, chunk>>

\* png.append_chunk(k)
PngAppendChunk ==
    /\ png # None
    /\ Len(png.chunks) < MaxChunks
    /\ \E k \in PngChunks :
        /\ png' = append_chunk(png, k)
        /\ op' = [name |-> "append_chunk", k |-> k, before |-> png.chunks]
    /\ UNCHANGED <<ctype, chunk>>

\* png.remove_chunk(tag); appended is the chunk the call before appended
PngRemoveChunk ==
    /\ png # None
    /\ \E tag \in TagInputs :
        LET r == remove_chunk(png, tag)
        IN  /\ png' = r.png
            /\ op' = [name     |-> "remove_chunk",
                      tag      |-> tag,
                      before   |-> png.chunks,
                      appended |-> IF op.name = "append_chunk"
                                   THEN op.k ELSE None,
                      ret      |-> r.ret]
    /\ UNCHANGED <<ctype, chunk>>

\* png.as_bytes()
PngAsBytes ==
    /\ png # None
    /\ op.name # "png_as_bytes"
    /\ op' = [name |-> "png_as_bytes", ret |-> Png_as_bytes(png)]
    /\ UNCHANGED <<ctype, chunk, png>>

\* Png::try_from(value) on the bytes as_bytes returned (written is then
\* the container they came from) or on a buffer read from a file
PngParse ==
    /\ op.name \in {"init", "png_as_bytes"}
    /\ \E value \in IF op.name = "init" THEN ExternalFiles ELSE {op.ret} :
        LET r == Png_try_from(value)
        IN  /\ png' = IF r.ok THEN r.val ELSE None
            /\ op' = [name    |-> "png_parse",
                      input   |-> value,
                      written |-> png,
                      ret     |-> r]
    /\ UNCHANGED <<ctype, chunk>>

Init ==
    /\ ctype = None
    /\ chunk = None
    /\ png = None
    /\ op = Start("init")

NextType == TypeFromStr \/ TypeNew

SpecType == Init /\ [][NextType]_vars

NextChunk == ChunkNew \/ ChunkAsBytes \/ ChunkParse

SpecChunk == Init /\ [][NextChunk]_vars

Next ==
    \/ PngFromChunks
    \/ PngAppendChunk
    \/ PngRemoveChunk
    \/ PngAsBytes
    \/ PngParse

Spec == Init /\ [][Next]_vars

----------------------------------------------------------------------------
(* Properties of chunk_type.rs, checked under SpecType *)

Letters == (65..90) \cup (97..122)

AllLetters(s) == Len(s) = 4 /\ \A i \in 1..4 : s[i] \in Letters

\* bit 5 of a byte, read off its residue modulo 64
Bit5Clear(b) == b % 64 < 32

\* C7: from_str(s) succeeds exactly when s is 4 bytes long and every byte
\* is an ASCII letter; on success the stored bytes are the bytes of s, in
\* every other case the error is InvalidFormat.
C7_FromStr ==
    op.name = "from_str" =>
        /\ op.ret.ok <=> AllLetters(op.s)
        /\ op.ret.ok => bytes(op.ret.val) = op.s /\ ctype = op.ret.val
        /\ ~ op.ret.ok => op.ret = Err("InvalidFormat") /\ ctype = None

C7_Witness ==
    /\ op.name = "from_str"
    /\ op.ret.ok
    /\ op.s = <<65, 122, 65, 122>>

\* C8: for every 4-byte tag, is_critical, is_public and
\* is_reserved_bit_valid hold exactly when bit 5 of byte 0, 1, 2 is clear,
\* is_safe_to_copy exactly when bit 5 of byte 3 is set, is_valid exactly
\* when all four bytes are letters and bit 5 of byte 2 is clear; no query
\* fails.
C8_Flags ==
    op.name = "type_new" =>
        /\ ~ op.panics
        /\ op.critical <=> Bit5Clear(op.data[1])
        /\ op.public <=> Bit5Clear(op.data[2])
        /\ op.reserved <=> Bit5Clear(op.data[3])
        /\ op.safe <=> ~ Bit5Clear(op.data[4])
        /\ op.valid <=> (AllLetters(op.data) /\ Bit5Clear(op.data[3]))

C8_Witness ==
    /\ op.name = "type_new"
    /\ op.data = <<65, 97, 90, 122>>
    /\ op.critical /\ ~ op.public /\ op.reserved /\ op.safe /\ op.valid

----------------------------------------------------------------------------
(* Properties of chunk.rs, checked under SpecChunk *)

SameChunk(a, b) ==
    /\ a.m_length = b.m_length
    /\ a.m_type = b.m_type
    /\ a.m_chunk_data = b.m_chunk_data
    /\ a.m_crc = b.m_crc

\* C2: for a chunk k from Chunk::new or from a successful parse, parsing
\* k.as_bytes() succeeds and returns a chunk with k's length, type, data
\* and crc.
C2_ChunkRoundTrip ==
    (op.name = "parse" /\ op.kind = "same") =>
        op.ret.ok /\ chunk # None /\ SameChunk(chunk, op.k)

\* the round trip of a chunk whose length field is not its data length
C2_Witness ==
    /\ op.name = "parse"
    /\ op.kind = "same"
    /\ op.ret.ok
    /\ op.k.m_length # usize_as_u32(Len(op.k.m_chunk_data))

\* C3: every chunk, from Chunk::new or from a successful parse, carries
\* the CRC-32 (ISO-HDLC) of its type bytes followed by its data bytes; for
\* the chunk of test_new_chunk that value is 2882656334 = 0xABD1D84E.
C3_CrcOfTypeAndData ==
    chunk # None =>
        /\ chunk.m_crc = calculate_crc(chunk.m_type.data \o chunk.m_chunk_data)
        /\ (chunk.m_type.data = RuSt /\ chunk.m_chunk_data = TestMessage)
              => chunk.m_crc = U32(43985, 55374)

C3_Witness ==
    /\ op.name = "parse"
    /\ op.ret.ok
    /\ chunk # None
    /\ chunk.m_chunk_data = TestMessage
    /\ chunk.m_crc = U32(43985, 55374)

\* C4: replacing the trailing 4 bytes of an accepted byte sequence by any
\* other value makes the parse fail with ChecksumMismatch, without a chunk.
C4_ChecksumEnforced ==
    (/\ op.name = "parse"
     /\ op.kind = "crc"
     /\ op.base_ok
     /\ Trailing(op.input) # Trailing(op.base))
        => op.ret = Err("ChecksumMismatch") /\ chunk = None

\* the stored CRC differs from the correct one in its first byte only
C4_Witness ==
    /\ op.name = "parse"
    /\ op.kind = "crc"
    /\ op.base_ok
    /\ Trailing(op.input)[1] # Trailing(op.base)[1]
    /\ SubSeq(Trailing(op.input), 2, 4) = SubSeq(Trailing(op.base), 2, 4)
    /\ op.ret = Err("ChecksumMismatch")

\* C9: the length of every chunk is the byte count of its data.
C9_LengthIsDataLen ==
    chunk # None => chunk.m_length = U32(0, Len(chunk.m_chunk_data))

\* C10: the parse never reaches its internal consistency failure: fewer
\* than 12 bytes give Truncated, and for 12 or more bytes the region after
\* the data is exactly 4 bytes and the outcome is a chunk or
\* ChecksumMismatch.
C10_NoInternalFailure ==
    op.name = "parse" =>
        /\ op.ret # Err("Panic")
        /\ Len(op.input) < 12 => op.ret = Err("Truncated") /\ op.trail = -1
        /\ Len(op.input) >= 12 =>
              /\ op.trail = 4
              /\ op.ret.ok \/ op.ret = Err("ChecksumMismatch")

\* a 13-byte input: one data byte between the type and the CRC
C10_Witness ==
    /\ op.name = "parse"
    /\ Len(op.input) = 13
    /\ op.trail = 4
    /\ op.ret.ok

----------------------------------------------------------------------------
(* Properties of the container, checked under Spec *)

Renders(k, tag) == to_string(k.m_type) = tag

NoMatch(chunks, tag) == \A i \in 1..Len(chunks) : ~ Renders(chunks[i], tag)

\* C1: parsing the bytes a container serializes to succeeds and yields
\* the same signature and the same chunks in the same order.
C1_PngRoundTrip ==
    (op.name = "png_parse" /\ op.written # None) =>
        /\ op.ret.ok
        /\ png # None
        /\ png.header = op.written.header
        /\ Len(png.chunks) = Len(op.written.chunks)
        /\ \A i \in 1..Len(png.chunks) :
              SameChunk(png.chunks[i], op.written.chunks[i])

\* C5 as claimed: for any container and any chunk k, after append_chunk(k)
\* the lookup by k's tag returns k, remove_chunk by that tag then returns k
\* and leaves no chunk of that tag, and remove_chunk of an absent tag fails
\* with NotFound.
C5_AppendFindRemove ==
    /\ op.name = "append_chunk" =>
          chunk_by_type(png, to_string(op.k.m_type)) = op.k
    /\ (/\ op.name = "remove_chunk"
        /\ op.appended # None
        /\ Renders(op.appended, op.tag)) =>
          /\ op.ret = Ok(op.appended)
          /\ chunk_by_type(png, op.tag) = None
    /\ (op.name = "remove_chunk" /\ NoMatch(op.before, op.tag)) =>
          op.ret = Err("NotFound")

\* C5 amended: the same, for a container that held no chunk whose type
\* renders as k's tag when k was appended.
C5_AppendFindRemoveFresh ==
    /\ (/\ op.name = "append_chunk"
        /\ NoMatch(op.before, to_string(op.k.m_type))) =>
          chunk_by_type(png, to_string(op.k.m_type)) = op.k
    /\ (/\ op.name = "remove_chunk"
        /\ op.appended # None
        /\ Renders(op.appended, op.tag)
        /\ NoMatch(SubSeq(op.before, 1, Len(op.before) - 1), op.tag)) =>
          /\ op.ret = Ok(op.appended)
          /\ chunk_by_type(png, op.tag) = None
    /\ (op.name = "remove_chunk" /\ NoMatch(op.before, op.tag)) =>
          op.ret = Err("NotFound")

\* k was appended behind a chunk of another type and then removed by tag
C5_Witness ==
    /\ op.name = "remove_chunk"
    /\ op.appended # None
    /\ Renders(op.appended, op.tag)
    /\ Len(op.before) = 2
    /\ NoMatch(SubSeq(op.before, 1, 1), op.tag)
    /\ op.ret = Ok(op.appended)
    /\ png.chunks = SubSeq(op.before, 1, 1)

====
